---------------------------- MODULE Spec2Model ----------------------------
(***************************************************************************)
(* A model of the PVNet components:                                        *)
(*   - the last_value baseline forecaster (pvnet/models/baseline),         *)
(*   - the exponentially weighted losses (predict_pv_yield/models/loss),   *)
(*   - the conv3d encoder family, at the level of tensor shapes            *)
(*     (pvnet/models/conv3d/encoders),                                     *)
(*   - the checkpoint export script (scripts/checkpoint_to_huggingface).   *)
(* Each component has its own specification over the shared variables; the *)
(* variables of the other components stay at Idle.                         *)
(***************************************************************************)
EXTENDS Integers, Sequences, FiniteSets, TLC

VARIABLES
    forecast_len,   \* baseline: self.forecast_len
    gsp_yield,      \* baseline: x[BatchKey.gsp] of the latest forward call
    out,            \* baseline: what the latest forward call returned
    wl,             \* loss: the WeightedLosses object
    loss_call,      \* loss: the latest get_mse_exp / get_mae_exp call and its result
    enc,            \* encoders: the encoder object (or the exception of its __init__)
    enc_call,       \* encoders: the latest forward call and its result
    pc,             \* export script: position in push_to_huggingface
    args,           \* export script: the arguments of the run
    fs,             \* export script: the checkpoint directory and the environment
    locals,         \* export script: local variables of push_to_huggingface
    events          \* export script: the external calls made so far, in order

vars == <<forecast_len, gsp_yield, out, wl, loss_call, enc, enc_call,
          pc, args, fs, locals, events>>

Idle == "Idle"
None == "None"

blVars == <<forecast_len, gsp_yield, out>>
lossVars == <<wl, loss_call>>
encVars == <<enc, enc_call>>
pushVars == <<pc, args, fs, locals, events>>

blIdle == forecast_len = Idle /\ gsp_yield = Idle /\ out = Idle
lossIdle == wl = Idle /\ loss_call = Idle
encIdle == enc = Idle /\ enc_call = Idle
pushIdle == pc = Idle /\ args = Idle /\ fs = Idle /\ locals = Idle /\ events = Idle

(***************************************************************************)
(* Python helpers                                                          *)
(***************************************************************************)

\* range(lo, hi) as a sequence; empty when hi <= lo.
Range(lo, hi) == [k \in 1..(IF hi > lo THEN hi - lo ELSE 0) |-> lo + k - 1]

\* seq[i] for a Python index i (negative counts from the end) on a sequence of
\* length n: the 0-based position, or -1 for an IndexError.
PyIndex(i, n) ==
    LET j == IF i < 0 THEN i + n ELSE i
    IN  IF j >= 0 /\ j < n THEN j ELSE -1

(***************************************************************************)
(* The last_value baseline                                                 *)
(***************************************************************************)

MaxBatch == 2
MaxSeq == 3
MaxSites == 2
MaxForecast == 2

\* A tensor of shape (B, T, S) whose entries are pairwise distinct and positive,
\* so that an output entry identifies the input position it was read from.
Tagged(B, T, S) ==
    [b \in 1..B |-> [t \in 1..T |-> [s \in 1..S |-> ((b - 1) * T + (t - 1)) * S + s]]]

Overwrite(x, b, t, s, v) ==
    [x EXCEPT ![b] = [x[b] EXCEPT ![t] = [x[b][t] EXCEPT ![s] = v]]]

\* The inputs of forward: every shape within the bounds, tagged, with at most
\* one entry overwritten by 0.
GspInputs ==
    UNION { LET x == Tagged(B, T, S)
            IN  {x} \cup { Overwrite(x, b, t, s, 0) : b \in 1..B, t \in 1..T, s \in 1..S }
          : B \in 1..MaxBatch, T \in 1..MaxSeq, S \in 1..MaxSites }

BatchSize(x) == Len(x)
SeqLength(x) == Len(x[1])
NSites(x) == Len(x[1][1])

NoTensor == <<>>

LastValueIndexOffByOne(f) == -f

\* The time index of gsp_yield[:, -self.forecast_len - 1, 0].
LastValueIndex(f) == -f - 1

\* Model.forward: [raised, value], raised naming the exception if any.
ModelForward(f, x) ==
    LET t == PyIndex(LastValueIndex(f), SeqLength(x))
        s == PyIndex(0, NSites(x))
    IN  IF t < 0 \/ s < 0
        THEN [raised |-> "IndexError", value |-> NoTensor]
        ELSE LET y_hat == [b \in 1..BatchSize(x) |-> x[b][t + 1][s + 1]]
             IN  \* y_hat.unsqueeze(1).repeat(1, forecast_len)
                 [raised |-> None,
                  value |-> [b \in 1..BatchSize(x) |-> [h \in 1..f |-> y_hat[b]]]]

InitBaseline ==
    /\ forecast_len \in 0..MaxForecast
    /\ gsp_yield = NoTensor
    /\ out = [raised |-> None, value |-> NoTensor]
    /\ lossIdle /\ encIdle /\ pushIdle

Forward ==
    /\ \E x \in GspInputs :
          /\ gsp_yield' = x
          /\ out' = ModelForward(forecast_len, x)
    /\ UNCHANGED <<forecast_len, lossVars, encVars, pushVars>>

NextBaseline == Forward

SpecBaseline == InitBaseline /\ [][NextBaseline]_vars

\* C1: for an input of shape (batch_size, seq_length, n_sites) with
\* seq_length >= forecast_len + 1, forward returns a tensor of shape
\* (batch_size, forecast_len) whose entry [b][h] is the value of site 0 at the
\* time step just before the last forecast_len steps of row b; an input that
\* agrees with it on those entries gives the same output.
C1_LastValueRepeated ==
    (gsp_yield # NoTensor /\ SeqLength(gsp_yield) >= forecast_len + 1) =>
        LET T == SeqLength(gsp_yield)
            B == BatchSize(gsp_yield)
        IN  /\ out.raised = None
            /\ Len(out.value) = B
            /\ \A b \in 1..B :
                  /\ Len(out.value[b]) = forecast_len
                  /\ \A h \in 1..forecast_len :
                        out.value[b][h] = gsp_yield[b][T - forecast_len][1]
            /\ \A y \in GspInputs :
                  (/\ BatchSize(y) = B /\ SeqLength(y) = T
                   /\ \A b \in 1..B : y[b][T - forecast_len][1] = gsp_yield[b][T - forecast_len][1])
                  => ModelForward(forecast_len, y) = out

\* An input with two sites and spare history, one of whose other entries (a
\* later time step of site 0) was overwritten, forecast over one step.
C1_Witness ==
    /\ gsp_yield # NoTensor
    /\ forecast_len = 1
    /\ SeqLength(gsp_yield) = 3
    /\ NSites(gsp_yield) = 2
    /\ BatchSize(gsp_yield) = 2
    /\ gsp_yield[1][3][1] = 0
    /\ out.raised = None
    /\ out.value[2][1] = gsp_yield[2][2][1]
    /\ out.value[1][1] = gsp_yield[1][2][1]

(***************************************************************************)
(* Exact arithmetic for the loss weights.  A number is a fraction <<n, d>>  *)
(* in lowest terms with d > 0; float rounding is not modelled.              *)
(***************************************************************************)

RECURSIVE Gcd(_, _)
Gcd(a, b) == IF b = 0 THEN a ELSE Gcd(b, a % b)

AbsInt(a) == IF a < 0 THEN -a ELSE a

Frac(n, d) ==
    LET g == Gcd(AbsInt(n), AbsInt(d))
        k == IF d < 0 THEN -1 ELSE 1
    IN  <<(k * n) \div g, (k * d) \div g>>

FromInt(n) == <<n, 1>>
RAdd(a, b) == Frac(a[1] * b[2] + b[1] * a[2], a[2] * b[2])
RMul(a, b) == Frac(a[1] * b[1], a[2] * b[2])
RDiv(a, b) == Frac(a[1] * b[2], a[2] * b[1])
RNonNeg(a) == a[1] >= 0

RECURSIVE Pow2(_)
Pow2(n) == IF n <= 0 THEN 1 ELSE 2 * Pow2(n - 1)

\* Decay rates are measured in units of ln 2: the integer k stands for k * ln 2.
\* math.log(2)
MathLog2 == 1

\* math.exp(y) for y = k * ln 2
MathExp(k) == IF k >= 0 THEN <<Pow2(k), 1>> ELSE <<1, Pow2(-k)>>

(***************************************************************************)
(* WeightedLosses                                                          *)
(***************************************************************************)

MaxForecastLength == 3
MaxDecay == 2
MaxRows == 2
MaxVal == 1

\* The decay_rate arguments: None, or k * ln 2 for k in -1..MaxDecay.
NoneRate == [is_none |-> TRUE, k |-> 0]
Rate(k) == [is_none |-> FALSE, k |-> k]
DecayRates == {NoneRate} \cup {Rate(k) : k \in -1..MaxDecay}

\* torch.sum of a 1-d tensor
RECURSIVE TorchSum(_)
TorchSum(v) == IF v = <<>> THEN FromInt(0) ELSE RAdd(v[1], TorchSum(Tail(v)))

\* `if self.decay_rate is None` written as `if not self.decay_rate`
DecayRateOrDefaultFalsy(decay_rate) ==
    IF decay_rate.is_none \/ decay_rate.k = 0 THEN Rate(MathLog2) ELSE decay_rate

\* self.decay_rate after the `is None` test
DecayRateOrDefault(decay_rate) ==
    IF decay_rate.is_none THEN Rate(MathLog2) ELSE decay_rate

\* WeightedLosses.__init__
WeightedLossesInit(decay_rate, forecast_length) ==
    LET rate == DecayRateOrDefault(decay_rate)
        r == Range(0, forecast_length)
        weights == [j \in 1..Len(r) |-> MathExp(-rate.k * r[j])]
        total == TorchSum(weights)
    IN  [decay_rate |-> rate,
         forecast_length |-> forecast_length,
         weights |-> [j \in 1..Len(weights) |-> RDiv(weights[j], total)],
         arg_decay_rate |-> decay_rate]

\* Elementwise tensor operations on (rows, forecast_length) tensors of integers.
TSub(x, y) == [b \in 1..Len(x) |-> [h \in 1..Len(x[b]) |-> x[b][h] - y[b][h]]]
TSquare(x) == [b \in 1..Len(x) |-> [h \in 1..Len(x[b]) |-> x[b][h] * x[b][h]]]
TAbs(x) == [b \in 1..Len(x) |-> [h \in 1..Len(x[b]) |-> AbsInt(x[b][h])]]

\* weights * x: the 1-d weights broadcast along the last axis of x.
BroadcastMul(weights, x) ==
    [b \in 1..Len(x) |-> [h \in 1..Len(x[b]) |-> RMul(weights[h], FromInt(x[b][h]))]]

RECURSIVE Flatten(_)
Flatten(x) == IF x = <<>> THEN <<>> ELSE x[1] \o Flatten(Tail(x))

\* torch.mean in place of torch.sum
TorchReduceMean(x) ==
    LET v == Flatten(x)
    IN  IF v = <<>> THEN FromInt(0) ELSE RDiv(TorchSum(v), FromInt(Len(v)))

\* torch.sum over every element of a 2-d tensor
TorchReduce(x) == TorchSum(Flatten(x))

\* WeightedLosses.get_mse_exp
GetMseExp(self, output, target) ==
    TorchReduce(BroadcastMul(self.weights, TSquare(TSub(output, target))))

\* WeightedLosses.get_mae_exp
GetMaeExp(self, output, target) ==
    TorchReduce(BroadcastMul(self.weights, TAbs(TSub(output, target))))

\* The constant tensor of shape (rows, n).
ConstT(rows, n, c) == [b \in 1..rows |-> [h \in 1..n |-> c]]

\* The output tensors of shape (rows, n): zero but for at most one entry of the
\* last row.
BumpedT(rows, n) ==
    { [b \in 1..rows |-> [h \in 1..n |-> IF b = rows /\ h = h0 THEN v ELSE 0]] :
        h0 \in 1..n, v \in (-MaxVal)..MaxVal }
    \cup { ConstT(rows, n, 0) }

NoCall == [fn |-> None, output |-> <<>>, target |-> <<>>, result |-> FromInt(0)]

InitLoss ==
    /\ \E d \in DecayRates, f \in 0..MaxForecastLength : wl = WeightedLossesInit(d, f)
    /\ loss_call = NoCall
    /\ blIdle /\ encIdle /\ pushIdle

CallGetMseExp ==
    /\ \E rows \in 1..MaxRows :
       \E output \in BumpedT(rows, wl.forecast_length), c \in 0..MaxVal :
          LET target == ConstT(rows, wl.forecast_length, c)
          IN  loss_call' = [fn |-> "get_mse_exp", output |-> output, target |-> target,
                            result |-> GetMseExp(wl, output, target)]
    /\ UNCHANGED <<wl, blVars, encVars, pushVars>>

CallGetMaeExp ==
    /\ \E rows \in 1..MaxRows :
       \E output \in BumpedT(rows, wl.forecast_length), c \in 0..MaxVal :
          LET target == ConstT(rows, wl.forecast_length, c)
          IN  loss_call' = [fn |-> "get_mae_exp", output |-> output, target |-> target,
                            result |-> GetMaeExp(wl, output, target)]
    /\ UNCHANGED <<wl, blVars, encVars, pushVars>>

NextLoss == CallGetMseExp \/ CallGetMaeExp

SpecLoss == InitLoss /\ [][NextLoss]_vars

\* C2: the weights vector has exactly forecast_length entries and its entries
\* sum to 1, for every decay_rate and forecast_length that __init__ accepts.
C2_WeightsSumToOne ==
    /\ Len(wl.weights) = wl.forecast_length
    /\ TorchSum(wl.weights) = FromInt(1)

\* The decay rate the weights are to be built from: ln 2 for None, the argument
\* itself otherwise.
EffectiveRate(wlo) ==
    IF wlo.arg_decay_rate.is_none THEN MathLog2 ELSE wlo.arg_decay_rate.k

\* C3: weights[i+1] = weights[i] * exp(-decay_rate) for every i; a decay_rate of
\* None is replaced by ln 2, so each weight is half of the previous one; an
\* explicit decay_rate is used unchanged, 0 included, which gives the uniform
\* weights 1 / forecast_length.
C3_ExponentialDecay ==
    LET n == wl.forecast_length
        w == wl.weights
    IN  /\ \A i \in 1..(n - 1) : w[i + 1] = RMul(w[i], MathExp(-EffectiveRate(wl)))
        /\ wl.arg_decay_rate.is_none =>
              /\ wl.decay_rate = Rate(MathLog2)
              /\ \A i \in 1..(n - 1) : RMul(w[i + 1], FromInt(2)) = w[i]
        /\ ~wl.arg_decay_rate.is_none => wl.decay_rate = wl.arg_decay_rate
        /\ wl.arg_decay_rate = Rate(0) => \A i \in 1..n : w[i] = Frac(1, n)

\* An explicit decay_rate of 0 over three horizons: uniform weights of 1/3.
C3_Witness ==
    /\ wl.arg_decay_rate = Rate(0)
    /\ wl.forecast_length = 3
    /\ wl.weights = <<Frac(1, 3), Frac(1, 3), Frac(1, 3)>>

\* The error term of one entry: squared for get_mse_exp, absolute for get_mae_exp.
ErrTerm(fn, d) == IF fn = "get_mse_exp" THEN d * d ELSE AbsInt(d)

\* sum over h in 1..n of w[h] * ErrTerm(o[h] - t[h])
RECURSIVE HorizonSum(_, _, _, _, _)
HorizonSum(fn, w, o, t, n) ==
    IF n = 0 THEN FromInt(0)
    ELSE RAdd(HorizonSum(fn, w, o, t, n - 1),
              RMul(w[n], FromInt(ErrTerm(fn, o[n] - t[n]))))

\* sum over the first b rows of the row's HorizonSum
RECURSIVE RowsSum(_, _, _, _, _)
RowsSum(fn, w, o, t, b) ==
    IF b = 0 THEN FromInt(0)
    ELSE RAdd(RowsSum(fn, w, o, t, b - 1), HorizonSum(fn, w, o[b], t[b], Len(o[b])))

LossFn(fn, self, output, target) ==
    IF fn = "get_mse_exp" THEN GetMseExp(self, output, target)
    ELSE GetMaeExp(self, output, target)

\* C9: get_mse_exp returns the sum over horizons of weights[h] * (output[h] -
\* target[h])^2 and get_mae_exp the sum of weights[h] * |output[h] - target[h]|;
\* on a batch the same weights apply to every row and the result is the sum over
\* the rows; the result is non-negative, the same with output and target
\* swapped, and 0 when output equals target; self.weights is left as __init__
\* made it.
C9_WeightedReductions ==
    loss_call.fn # None =>
        LET o == loss_call.output
            t == loss_call.target
            fn == loss_call.fn
        IN  /\ loss_call.result = RowsSum(fn, wl.weights, o, t, Len(o))
            /\ \A b \in 1..Len(o) :
                  LossFn(fn, wl, <<o[b]>>, <<t[b]>>)
                      = HorizonSum(fn, wl.weights, o[b], t[b], wl.forecast_length)
            /\ RNonNeg(loss_call.result)
            /\ LossFn(fn, wl, t, o) = loss_call.result
            /\ (o = t => loss_call.result = FromInt(0))
            /\ wl = WeightedLossesInit(wl.arg_decay_rate, wl.forecast_length)

\* Two rows, three horizons, default decay (weights 4/7, 2/7, 1/7): output is 0
\* everywhere but 1 at row 2, horizon 2, target is 1; the squared errors weigh
\* 1 for row 1 and 5/7 for row 2.
C9_Witness ==
    /\ loss_call.fn = "get_mse_exp"
    /\ wl.arg_decay_rate.is_none
    /\ wl.forecast_length = 3
    /\ loss_call.output = <<<<0, 0, 0>>, <<0, 1, 0>>>>
    /\ loss_call.target = <<<<1, 1, 1>>, <<1, 1, 1>>>>
    /\ loss_call.result = Frac(12, 7)

(***************************************************************************)
(* The conv3d encoders, at the level of tensor shapes.  A shape is a tuple  *)
(* of sizes; ShapeErr stands for the RuntimeError of a layer applied to a   *)
(* tensor it does not fit.                                                  *)
(***************************************************************************)

MaxSeqLen == 2
MaxImage == 5
MaxInCh == 2
MaxOutF == 2
MaxConvLayers == 2
MaxDownscale == 2
MaxConvCh == 2
MaxFcFeatures == 1

ShapeErr == <<>>

RECURSIVE Prod(_)
Prod(v) == IF v = <<>> THEN 1 ELSE v[1] * Prod(Tail(v))

\* nn.Conv3d
Conv3d(in_channels, out_channels, kernel_size, padding, stride) ==
    [op |-> "Conv3d", in_channels |-> in_channels, out_channels |-> out_channels,
     kernel_size |-> kernel_size, padding |-> padding, stride |-> stride]

\* nn.Linear
Linear(in_features, out_features) ==
    [op |-> "Linear", in_features |-> in_features, out_features |-> out_features]

\* nn.LeakyReLU, nn.ReLU, F.relu
Activation == [op |-> "Activation"]

\* The output size of a convolution along one axis.
ConvOut(n, k, p, s) == ((n + 2 * p - k) \div s) + 1

\* Conv3d.forward on a shape (N, C, D, H, W)
ApplyConv3d(l, x) ==
    IF x = ShapeErr \/ Len(x) # 5 THEN ShapeErr
    ELSE IF x[2] # l.in_channels THEN ShapeErr
    ELSE IF \E i \in 1..3 : x[i + 2] + 2 * l.padding[i] - l.kernel_size[i] < 0 THEN ShapeErr
    ELSE <<x[1], l.out_channels,
           ConvOut(x[3], l.kernel_size[1], l.padding[1], l.stride[1]),
           ConvOut(x[4], l.kernel_size[2], l.padding[2], l.stride[2]),
           ConvOut(x[5], l.kernel_size[3], l.padding[3], l.stride[3])>>

\* Linear.forward on a shape (N, F)
ApplyLinear(l, x) ==
    IF x = ShapeErr \/ Len(x) # 2 THEN ShapeErr
    ELSE IF x[2] # l.in_features THEN ShapeErr
    ELSE <<x[1], l.out_features>>

\* ResidualConv3dBlock.__init__
ResidualConv3dBlock(in_channels, n_layers) ==
    LET r == Range(0, n_layers)
        one(i) == (IF i # 0 THEN <<Activation>> ELSE <<>>)
                  \o <<Conv3d(in_channels, in_channels, <<3, 3, 3>>, <<1, 1, 1>>, <<1, 1, 1>>)>>
        build[j \in 0..Len(r)] == IF j = 0 THEN <<>> ELSE build[j - 1] \o one(r[j])
    IN  [op |-> "ResidualConv3dBlock", convs |-> build[Len(r)]]

\* nn.Sequential.forward, and the forward of each kind of layer in it
RECURSIVE ApplySeq(_, _)
ApplyLayer(l, x) ==
    CASE l.op = "Conv3d" -> ApplyConv3d(l, x)
      [] l.op = "Linear" -> ApplyLinear(l, x)
      [] l.op = "Activation" -> x
      [] l.op = "ResidualConv3dBlock" ->
            \* final_activation(convs(x) + x)
            LET y == ApplySeq(l.convs, x)
            IN  IF y = x THEN x ELSE ShapeErr
      [] l.op = "Sequential" -> ApplySeq(l.layers, x)

ApplySeq(layers, x) ==
    IF layers = <<>> THEN x ELSE ApplySeq(Tail(layers), ApplyLayer(layers[1], x))

Sequential(layers) == [op |-> "Sequential", layers |-> layers]

\* An object on which no __init__ has run.
NoEncoder ==
    [cls |-> None, raised |-> None, module_init |-> FALSE, params |-> <<>>, attrs |-> <<>>]

\* The conv_layers list of DefaultPVNet.__init__: the first Conv3d, then one more
\* for each i in range(0, number_of_conv3d_layers - 1).
DefaultConvLayers(in_channels, conv3d_channels, number_of_conv3d_layers) ==
    LET first == <<Conv3d(in_channels, conv3d_channels, <<3, 3, 3>>, <<1, 0, 0>>, <<1, 1, 1>>),
                   Activation>>
        more == <<Conv3d(conv3d_channels, conv3d_channels, <<3, 3, 3>>, <<1, 0, 0>>, <<1, 1, 1>>),
                  Activation>>
        r == Range(0, number_of_conv3d_layers - 1)
        build[j \in 0..Len(r)] == IF j = 0 THEN first ELSE build[j - 1] \o more
    IN  build[Len(r)]

\* DefaultPVNet.__init__
DefaultPVNetInit(p) ==
    LET cnn_spatial_output_size == p.image_size_pixels - 2 * p.number_of_conv3d_layers
        cnn_output_size ==
            p.conv3d_channels * cnn_spatial_output_size * cnn_spatial_output_size
                * p.sequence_length
    IN  \* super().__init__ runs first, then the check
        IF ~(cnn_spatial_output_size > 0)
        THEN [cls |-> "DefaultPVNet", raised |-> "ValueError", module_init |-> TRUE,
              params |-> p, attrs |-> <<>>]
        ELSE [cls |-> "DefaultPVNet", raised |-> None, module_init |-> TRUE, params |-> p,
              attrs |->
                [conv_layers |-> DefaultConvLayers(p.in_channels, p.conv3d_channels,
                                                   p.number_of_conv3d_layers),
                 fc1 |-> Linear(cnn_output_size, p.fc_features),
                 fc2 |-> Linear(p.fc_features, p.out_features)]]

\* DefaultPVNet.forward: the shapes after the convolutions, after the reshape
\* and at the end.
DefaultPVNetForward(self, x) ==
    LET conv == ApplySeq(self.attrs.conv_layers, x)
        flat == IF conv = ShapeErr THEN ShapeErr ELSE <<x[1], Prod(Tail(conv))>>
        out1 == ApplyLinear(self.attrs.fc1, flat)
        out2 == ApplyLinear(self.attrs.fc2, out1)
    IN  [raised |-> IF out2 = ShapeErr THEN "RuntimeError" ELSE None,
         conv |-> conv, flat |-> flat, out |-> out2]

\* image_size_pixels // (2 ** n_downscale), rounded up instead of down
UNetSpatialOutputCeil(image_size_pixels, n_downscale) ==
    (image_size_pixels + Pow2(n_downscale) - 1) \div Pow2(n_downscale)

\* image_size_pixels // (2 ** n_downscale)
UNetSpatialOutput(image_size_pixels, n_downscale) ==
    image_size_pixels \div Pow2(n_downscale)

\* cat_channels, with the first layer's output left out
UNetCatChannelsDownOnly(conv3d_channels, n_downscale) == conv3d_channels * n_downscale

\* cat_channels = conv3d_channels * (1 + n_downscale)
UNetCatChannels(conv3d_channels, n_downscale) == conv3d_channels * (1 + n_downscale)

\* One entry of downscale_layers.
DownscaleLayer(conv3d_channels) ==
    Sequential(<<ResidualConv3dBlock(conv3d_channels, 3),
                 Conv3d(conv3d_channels, conv3d_channels, <<1, 2, 2>>, <<0, 0, 0>>, <<1, 2, 2>>),
                 Activation>>)

\* EncoderUNET.__init__
EncoderUNETInit(p) ==
    LET cnn_spatial_output == UNetSpatialOutput(p.image_size_pixels, p.n_downscale)
        c == p.conv3d_channels
        final_channels ==
            UNetSpatialOutput(p.image_size_pixels, p.n_downscale)
                * UNetSpatialOutput(p.image_size_pixels, p.n_downscale)
                * c * p.sequence_length
    IN  \* the check runs before super().__init__
        IF ~(cnn_spatial_output > 0)
        THEN [cls |-> "EncoderUNET", raised |-> "ValueError", module_init |-> FALSE,
              params |-> p, attrs |-> <<>>]
        ELSE [cls |-> "EncoderUNET", raised |-> None, module_init |-> TRUE, params |-> p,
              attrs |->
                [first_layer |->
                    <<Conv3d(p.in_channels, c, <<1, 1, 1>>, <<0, 0, 0>>, <<1, 1, 1>>),
                      Activation,
                      ResidualConv3dBlock(c, 3)>>,
                 downscale_layers |->
                    [j \in 1..Len(Range(0, p.n_downscale)) |-> DownscaleLayer(c)],
                 crop_fn |-> UNetSpatialOutput(p.image_size_pixels, p.n_downscale),
                 cat_conv |-> Conv3d(UNetCatChannels(c, p.n_downscale), c,
                                     <<1, 1, 1>>, <<0, 0, 0>>, <<1, 1, 1>>),
                 final_conv |-> ResidualConv3dBlock(c, 3),
                 final_block |->
                    <<Linear(final_channels, p.fc_features),
                      Activation,
                      Linear(p.fc_features, p.out_features)>>]]

\* torchvision CenterCrop(size) on a shape (..., H, W): always (..., size, size);
\* an image smaller than the crop is padded first.
CenterCrop(size, x) ==
    IF x = ShapeErr THEN ShapeErr ELSE <<x[1], x[2], x[3], size, size>>

CenterCropPads(size, x) == x # ShapeErr /\ (x[4] < size \/ x[5] < size)

\* torch.cat(outputs, dim=1)
TorchCat(outputs) ==
    IF \E i \in 1..Len(outputs) : outputs[i] = ShapeErr THEN ShapeErr
    ELSE IF \E i \in 1..Len(outputs) :
              <<outputs[i][1], outputs[i][3], outputs[i][4], outputs[i][5]>>
                  # <<outputs[1][1], outputs[1][3], outputs[1][4], outputs[1][5]>>
         THEN ShapeErr
    ELSE LET chan[j \in 0..Len(outputs)] == IF j = 0 THEN 0 ELSE chan[j - 1] + outputs[j][2]
         IN  <<outputs[1][1], chan[Len(outputs)], outputs[1][3], outputs[1][4], outputs[1][5]>>

\* EncoderUNET.forward: maps[k + 1] is the feature map after k downscale layers,
\* outputs[k + 1] its centre crop.
EncoderUNETForward(self, x) ==
    LET a == self.attrs
        n == Len(a.downscale_layers)
        maps[k \in 0..n] ==
            IF k = 0 THEN ApplySeq(a.first_layer, x)
            ELSE ApplyLayer(a.downscale_layers[k], maps[k - 1])
        outputs == [k \in 1..(n + 1) |-> CenterCrop(a.crop_fn, maps[k - 1])]
        cat == TorchCat(outputs)
        conv == ApplyLayer(a.final_conv, ApplyConv3d(a.cat_conv, cat))
        flat == IF conv = ShapeErr THEN ShapeErr ELSE <<conv[1], Prod(Tail(conv))>>
        out1 == ApplySeq(a.final_block, flat)
    IN  [raised |-> IF out1 = ShapeErr THEN "RuntimeError" ELSE None,
         maps |-> [k \in 1..(n + 1) |-> maps[k - 1]],
         padded |-> [k \in 1..(n + 1) |-> CenterCropPads(a.crop_fn, maps[k - 1])],
         outputs |-> outputs, cat |-> cat, flat |-> flat, out |-> out1]

\* EncoderNaiveEfficientNet.__init__; installed tells whether efficientnet_pytorch
\* can be imported.
EncoderNaiveEfficientNetInit(p, installed) ==
    IF ~installed
    THEN [cls |-> "EncoderNaiveEfficientNet", raised |-> "ImportError", module_init |-> FALSE,
          params |-> p, attrs |-> <<>>]
    ELSE [cls |-> "EncoderNaiveEfficientNet", raised |-> None, module_init |-> TRUE,
          params |-> p,
          attrs |-> [model |-> [op |-> "EfficientNet",
                                in_channels |-> p.in_channels * p.sequence_length,
                                image_size |-> p.image_size_pixels,
                                num_classes |-> p.out_features]]]

\* EncoderNaiveEfficientNet.forward: axes 1 and 2 are folded into the channels of
\* a 2-d network, which ends in num_classes features.
EncoderNaiveEfficientNetForward(self, x) ==
    LET stacked == <<x[1], x[2] * x[3], x[4], x[5]>>
        out1 == IF stacked[2] # self.attrs.model.in_channels THEN ShapeErr
                ELSE <<stacked[1], self.attrs.model.num_classes>>
    IN  [raised |-> IF out1 = ShapeErr THEN "RuntimeError" ELSE None, out |-> out1]

\* The arguments every encoder takes.
CommonParams ==
    [sequence_length : 1..MaxSeqLen, image_size_pixels : 1..MaxImage,
     in_channels : 1..MaxInCh, out_features : 1..MaxOutF]

DefaultPVNetParams(q, number_of_conv3d_layers, conv3d_channels, fc_features) ==
    [sequence_length |-> q.sequence_length, image_size_pixels |-> q.image_size_pixels,
     in_channels |-> q.in_channels, out_features |-> q.out_features,
     number_of_conv3d_layers |-> number_of_conv3d_layers,
     conv3d_channels |-> conv3d_channels, fc_features |-> fc_features]

EncoderUNETParams(q, n_downscale, conv3d_channels, fc_features) ==
    [sequence_length |-> q.sequence_length, image_size_pixels |-> q.image_size_pixels,
     in_channels |-> q.in_channels, out_features |-> q.out_features,
     n_downscale |-> n_downscale,
     conv3d_channels |-> conv3d_channels, fc_features |-> fc_features]

\* An input of the declared sizes: the axes in the order the class docstring
\* gives, (batch, time, channels, height, width), or with channels before time.
InputShape(p, batch_size, layout) ==
    IF layout = "time_first"
    THEN <<batch_size, p.sequence_length, p.in_channels, p.image_size_pixels, p.image_size_pixels>>
    ELSE <<batch_size, p.in_channels, p.sequence_length, p.image_size_pixels, p.image_size_pixels>>

Layouts == {"time_first", "channels_first"}

NoForward == [layout |-> None, x |-> ShapeErr, res |-> [raised |-> None, out |-> ShapeErr]]

InitEncoders ==
    /\ enc = NoEncoder
    /\ enc_call = NoForward
    /\ blIdle /\ lossIdle /\ pushIdle

ConstructDefaultPVNet ==
    /\ enc.cls = None
    /\ \E q \in CommonParams, n \in 0..MaxConvLayers, c \in 1..MaxConvCh, f \in 1..MaxFcFeatures :
          enc' = DefaultPVNetInit(DefaultPVNetParams(q, n, c, f))
    /\ UNCHANGED <<enc_call, blVars, lossVars, pushVars>>

ConstructEncoderUNET ==
    /\ enc.cls = None
    /\ \E q \in CommonParams, n \in 0..MaxDownscale, c \in 1..MaxConvCh, f \in 1..MaxFcFeatures :
          enc' = EncoderUNETInit(EncoderUNETParams(q, n, c, f))
    /\ UNCHANGED <<enc_call, blVars, lossVars, pushVars>>

ConstructEncoderNaiveEfficientNet ==
    /\ enc.cls = None
    /\ \E q \in CommonParams, installed \in BOOLEAN :
          enc' = EncoderNaiveEfficientNetInit(q, installed)
    /\ UNCHANGED <<enc_call, blVars, lossVars, pushVars>>

CallDefaultPVNetForward ==
    /\ enc.cls = "DefaultPVNet" /\ enc.raised = None
    /\ \E b \in 1..MaxBatch, layout \in Layouts :
          LET x == InputShape(enc.params, b, layout)
          IN  enc_call' = [layout |-> layout, x |-> x, res |-> DefaultPVNetForward(enc, x)]
    /\ UNCHANGED <<enc, blVars, lossVars, pushVars>>

CallEncoderUNETForward ==
    /\ enc.cls = "EncoderUNET" /\ enc.raised = None
    /\ \E b \in 1..MaxBatch, layout \in Layouts :
          LET x == InputShape(enc.params, b, layout)
          IN  enc_call' = [layout |-> layout, x |-> x, res |-> EncoderUNETForward(enc, x)]
    /\ UNCHANGED <<enc, blVars, lossVars, pushVars>>

CallEncoderNaiveEfficientNetForward ==
    /\ enc.cls = "EncoderNaiveEfficientNet" /\ enc.raised = None
    /\ \E b \in 1..MaxBatch, layout \in Layouts :
          LET x == InputShape(enc.params, b, layout)
          IN  enc_call' = [layout |-> layout, x |-> x,
                           res |-> EncoderNaiveEfficientNetForward(enc, x)]
    /\ UNCHANGED <<enc, blVars, lossVars, pushVars>>

NextEncoders ==
    \/ ConstructDefaultPVNet
    \/ ConstructEncoderUNET
    \/ ConstructEncoderNaiveEfficientNet
    \/ CallDefaultPVNetForward
    \/ CallEncoderUNETForward
    \/ CallEncoderNaiveEfficientNetForward

SpecEncoders == InitEncoders /\ [][NextEncoders]_vars

\* C4: every encoder variant takes an input of shape (batch_size,
\* sequence_length, channels, height, width) of the sizes it was constructed
\* with and returns an output of shape (batch_size, out_features).  (A
\* DefaultPVNet with number_of_conv3d_layers = 0 fails on every input, see C7,
\* and is left out here.)
C4_SameInputLayout ==
    (/\ enc_call.layout = "time_first"
     /\ (enc.cls = "DefaultPVNet" => enc.params.number_of_conv3d_layers >= 1)) =>
        /\ enc_call.res.raised = None
        /\ enc_call.res.out = <<enc_call.x[1], enc.params.out_features>>

\* C5: EncoderUNET.__init__ raises ValueError exactly when image_size_pixels //
\* 2**n_downscale is not greater than 0, that is when image_size_pixels <
\* 2**n_downscale; it raises before the module is initialised and before any
\* layer is built; every other configuration is constructed in full.
C5_UNetRejectsTooDeep ==
    enc.cls = "EncoderUNET" =>
        LET image == enc.params.image_size_pixels
            n == enc.params.n_downscale
        IN  /\ enc.raised \in {None, "ValueError"}
            /\ (enc.raised = "ValueError") <=> ~((image \div Pow2(n)) > 0)
            /\ (enc.raised = "ValueError") <=> (image < Pow2(n))
            /\ enc.raised = "ValueError" => (~enc.module_init /\ DOMAIN enc.attrs = {})
            /\ enc.raised = None =>
                  /\ enc.module_init
                  /\ DOMAIN enc.attrs = {"first_layer", "downscale_layers", "crop_fn",
                                         "cat_conv", "final_conv", "final_block"}

\* A 3-pixel image with two downscaling layers: 3 // 4 = 0, rejected.
C5_Witness ==
    /\ enc.cls = "EncoderUNET"
    /\ enc.params.image_size_pixels = 3
    /\ enc.params.n_downscale = 2
    /\ enc.raised = "ValueError"
    /\ ~enc.module_init

\* The number of Conv3d layers in a list of layers.
NumConv3d(layers) == Cardinality({i \in 1..Len(layers) : layers[i].op = "Conv3d"})

\* C6: DefaultPVNet.__init__ raises ValueError exactly when image_size_pixels -
\* 2 * number_of_conv3d_layers <= 0, before any convolution or linear layer is
\* created; every combination that does not raise is a valid architecture: a
\* forward pass on an input of the declared sequence length, channel count and
\* image size (channels on the axis Conv3d reads them from) does not fail.
C6_DefaultPVNetValidOrRaises ==
    enc.cls = "DefaultPVNet" =>
        LET image == enc.params.image_size_pixels
            n == enc.params.number_of_conv3d_layers
        IN  /\ (enc.raised = "ValueError") <=> (image - 2 * n <= 0)
            /\ enc.raised = "ValueError" => DOMAIN enc.attrs = {}
            /\ (enc.raised = None /\ enc_call.layout = "channels_first") =>
                  /\ enc_call.res.raised = None
                  /\ enc_call.res.out = <<enc_call.x[1], enc.params.out_features>>

\* C7: conv_layers holds number_of_conv3d_layers Conv3d layers for every
\* accepted value; the convolutions keep the time length and take 2 off each
\* spatial side per layer, so the flattened output per sample has
\* conv3d_channels * (image_size_pixels - 2 * number_of_conv3d_layers)^2 *
\* sequence_length elements, the in_features of fc1.
C7_ConvLayerCount ==
    (enc.cls = "DefaultPVNet" /\ enc.raised = None) =>
        LET q == enc.params
            n == q.number_of_conv3d_layers
            side == q.image_size_pixels - 2 * n
        IN  /\ NumConv3d(enc.attrs.conv_layers) = n
            /\ enc.attrs.fc1.in_features = q.conv3d_channels * side * side * q.sequence_length
            /\ enc_call.layout = "channels_first" =>
                  /\ enc_call.res.conv
                        = <<enc_call.x[1], q.conv3d_channels, q.sequence_length, side, side>>
                  /\ enc_call.res.flat = <<enc_call.x[1], enc.attrs.fc1.in_features>>

\* C8: in EncoderUNET.forward, on an input of the declared sizes (channels on the
\* axis Conv3d reads them from), the feature map after k downscale layers has
\* spatial side floor(image_size_pixels / 2^k), never below the crop size
\* image_size_pixels // 2^n_downscale, so the centre crop never pads; the 1 +
\* n_downscale cropped maps share one time and spatial shape; their
\* concatenation has conv3d_channels * (1 + n_downscale) channels, as cat_conv
\* expects; the flattened result has crop^2 * conv3d_channels * sequence_length
\* elements, as the first Linear of final_block expects.
C8_UNetShapes ==
    (enc.cls = "EncoderUNET" /\ enc_call.layout = "channels_first") =>
        LET q == enc.params
            n == q.n_downscale
            crop == q.image_size_pixels \div Pow2(n)
            r == enc_call.res
            B == enc_call.x[1]
        IN  /\ Len(r.maps) = n + 1
            /\ \A k \in 0..n :
                  /\ r.maps[k + 1] = <<B, q.conv3d_channels, q.sequence_length,
                                       q.image_size_pixels \div Pow2(k),
                                       q.image_size_pixels \div Pow2(k)>>
                  /\ q.image_size_pixels \div Pow2(k) >= crop
                  /\ ~r.padded[k + 1]
                  /\ r.outputs[k + 1] = <<B, q.conv3d_channels, q.sequence_length, crop, crop>>
            /\ r.cat = <<B, q.conv3d_channels * (1 + n), q.sequence_length, crop, crop>>
            /\ r.cat[2] = enc.attrs.cat_conv.in_channels
            /\ r.flat = <<B, crop * crop * q.conv3d_channels * q.sequence_length>>
            /\ r.flat[2] = enc.attrs.final_block[1].in_features
            /\ r.raised = None
            /\ r.out = <<B, q.out_features>>

\* A 5-pixel image downscaled twice: sides 5, 2, 1, all cropped to 1.
C8_Witness ==
    /\ enc.cls = "EncoderUNET"
    /\ enc_call.layout = "channels_first"
    /\ enc.params.image_size_pixels = 5
    /\ enc.params.n_downscale = 2
    /\ enc.params.sequence_length = 2
    /\ enc.params.conv3d_channels = 2
    /\ enc_call.res.maps[2][4] = 2
    /\ enc_call.res.maps[3][4] = 1
    /\ enc_call.res.cat = <<enc_call.x[1], 6, 2, 1, 1>>
    /\ enc_call.res.raised = None

(***************************************************************************)
(* scripts/checkpoint_to_huggingface.py: one run of push_to_huggingface,    *)
(* statement by statement.  events lists the steps that completed, in       *)
(* order, and the call of save_pretrained whether or not it returned.       *)
(***************************************************************************)

MaxEpochFiles == 2

TempDir == "tmp"
RepoName == "openclimatefix/pvnet_v2"

NoFile == [kind |-> None, epoch |-> 0]
EpochCkpt(i) == [kind |-> "epoch", epoch |-> i]
LastCkpt == [kind |-> "last", epoch |-> 0]

\* glob.glob(f"{checkpoint_dir_path}/epoch*.ckpt"): the matching files, in some order
RECURSIVE GlobSeq(_)
GlobSeq(S) ==
    IF S = {} THEN <<>>
    ELSE LET i == CHOOSE j \in S : TRUE IN <<EpochCkpt(i)>> \o GlobSeq(S \ {i})

Glob(f) == GlobSeq(f.epoch_ckpts)

\* the assertion on the glob result, with `>= 1` for `== 1`
OneCheckpointAtLeast(files) == Len(files) >= 1

\* assert len(files) == 1
OneCheckpoint(files) == Len(files) = 1

\* repo_id="openclimatefix/pvnet_v2" if push_to_hub else None
RepoId(push_to_hub) == IF push_to_hub THEN RepoName ELSE None

PushArgs ==
    [val_best : BOOLEAN, wandb_id : {None, "given_id"}, local_path : {None, "local"},
     push_to_hub : BOOLEAN]

\* The checkpoint directory: whether model_config.yaml, last.ckpt and
\* data_config.yaml exist, which epoch*.ckpt files exist, and whether the
\* directory name is a wandb run id.
CheckpointDirs ==
    [model_config : BOOLEAN, epoch_ckpts : SUBSET (1..MaxEpochFiles), last_ckpt : BOOLEAN,
     data_config : BOOLEAN, dirname_is_run : BOOLEAN]

InitPush ==
    /\ pc = "assert_args"
    /\ args \in PushArgs
    /\ fs \in CheckpointDirs
    /\ locals = [wandb_id |-> args.wandb_id, model |-> None, loaded |-> NoFile,
                 temp_dir |-> None, model_output_dir |-> None,
                 save_args |-> [dir |-> None, push_to_hub |-> FALSE, repo_id |-> None,
                                wandb_model_code |-> None],
                 cleaned |-> {}, exc |-> None]
    /\ events = <<>>
    /\ blIdle /\ lossIdle /\ encIdle

Raise(exc) ==
    /\ pc' = "raised"
    /\ locals' = [locals EXCEPT !.exc = exc]

\* assert push_to_hub or local_path is not None
AssertArgs ==
    /\ pc = "assert_args"
    /\ IF args.push_to_hub \/ args.local_path # None
       THEN /\ pc' = "wandb"
            /\ events' = Append(events, "assert_args")
            /\ UNCHANGED locals
       ELSE /\ Raise("AssertionError")
            /\ UNCHANGED events
    /\ UNCHANGED <<args, fs, blVars, lossVars, encVars>>

\* if wandb_id is None: look the directory name up among the wandb runs
WandbLookup ==
    /\ pc = "wandb"
    /\ IF args.wandb_id = None
       THEN \/ /\ pc' = "parse_config"
               /\ locals' = [locals EXCEPT !.wandb_id =
                                IF fs.dirname_is_run THEN "dirname" ELSE None]
               /\ events' = Append(events, "wandb.Api.runs")
            \/ /\ Raise("CommError")
               /\ UNCHANGED events
       ELSE /\ pc' = "parse_config"
            /\ UNCHANGED <<locals, events>>
    /\ UNCHANGED <<args, fs, blVars, lossVars, encVars>>

\* model_config = parse_config(f"{checkpoint_dir_path}/model_config.yaml")
ParseConfig ==
    /\ pc = "parse_config"
    /\ IF fs.model_config
       THEN /\ pc' = "instantiate"
            /\ events' = Append(events, "parse_config")
            /\ UNCHANGED locals
       ELSE /\ Raise("FileNotFoundError")
            /\ UNCHANGED events
    /\ UNCHANGED <<args, fs, blVars, lossVars, encVars>>

\* model = hydra.utils.instantiate(model_config)
Instantiate ==
    /\ pc = "instantiate"
    /\ \/ /\ pc' = "load_checkpoint"
          /\ locals' = [locals EXCEPT !.model = "instantiated"]
          /\ events' = Append(events, "instantiate")
       \/ /\ Raise("InstantiationException")
          /\ UNCHANGED events
    /\ UNCHANGED <<args, fs, blVars, lossVars, encVars>>

\* if val_best: glob, assert, torch.load(files[0]); else torch.load(last.ckpt)
LoadCheckpoint ==
    /\ pc = "load_checkpoint"
    /\ IF args.val_best
       THEN LET files == Glob(fs)
            IN  IF OneCheckpoint(files)
                THEN /\ pc' = "load_state_dict"
                     /\ locals' = [locals EXCEPT !.loaded = files[1]]
                     /\ events' = Append(events, "torch.load")
                ELSE /\ Raise("AssertionError")
                     /\ UNCHANGED events
       ELSE IF fs.last_ckpt
            THEN /\ pc' = "load_state_dict"
                 /\ locals' = [locals EXCEPT !.loaded = LastCkpt]
                 /\ events' = Append(events, "torch.load")
            ELSE /\ Raise("FileNotFoundError")
                 /\ UNCHANGED events
    /\ UNCHANGED <<args, fs, blVars, lossVars, encVars>>

\* model.load_state_dict(state_dict=checkpoint["state_dict"])
LoadStateDict ==
    /\ pc = "load_state_dict"
    /\ \/ /\ pc' = "convert"
          /\ locals' = [locals EXCEPT !.model = "loaded"]
          /\ events' = Append(events, "load_state_dict")
       \/ /\ Raise("RuntimeError")
          /\ UNCHANGED events
    /\ UNCHANGED <<args, fs, blVars, lossVars, encVars>>

\* if isinstance(model, UMTModel): model.convert_to_multimodal_model(model_config)
ConvertUMT ==
    /\ pc = "convert"
    /\ pc' = "check_data_config"
    /\ \/ /\ locals' = [locals EXCEPT !.model = "converted"]
          /\ events' = Append(events, "convert_to_multimodal_model")
       \/ UNCHANGED <<locals, events>>
    /\ UNCHANGED <<args, fs, blVars, lossVars, encVars>>

\* assert os.path.isfile(data_config)
CheckDataConfig ==
    /\ pc = "check_data_config"
    /\ IF fs.data_config
       THEN /\ pc' = "output_dir"
            /\ events' = Append(events, "isfile(data_config)")
            /\ UNCHANGED locals
       ELSE /\ Raise("AssertionError")
            /\ UNCHANGED events
    /\ UNCHANGED <<args, fs, blVars, lossVars, encVars>>

\* if local_path is None: a TemporaryDirectory; else local_path
OutputDir ==
    /\ pc = "output_dir"
    /\ pc' = "save_pretrained"
    /\ IF args.local_path = None
       THEN /\ locals' = [locals EXCEPT !.temp_dir = TempDir, !.model_output_dir = TempDir]
            /\ events' = Append(events, "TemporaryDirectory")
       ELSE /\ locals' = [locals EXCEPT !.model_output_dir = args.local_path]
            /\ UNCHANGED events
    /\ UNCHANGED <<args, fs, blVars, lossVars, encVars>>

\* model.save_pretrained(model_output_dir, ..., push_to_hub=..., repo_id=...)
SavePretrained ==
    /\ pc = "save_pretrained"
    /\ events' = Append(events, "save_pretrained")
    /\ LET sa == [dir |-> locals.model_output_dir, push_to_hub |-> args.push_to_hub,
                  repo_id |-> RepoId(args.push_to_hub),
                  wandb_model_code |-> locals.wandb_id]
       IN  \/ /\ pc' = "cleanup"
              /\ locals' = [locals EXCEPT !.save_args = sa]
           \/ /\ pc' = "raised"
              /\ locals' = [locals EXCEPT !.save_args = sa, !.exc = "HfHubHTTPError"]
    /\ UNCHANGED <<args, fs, blVars, lossVars, encVars>>

\* if local_path is None: temp_dir.cleanup()
Cleanup ==
    /\ pc = "cleanup"
    /\ pc' = "done"
    /\ IF args.local_path = None
       THEN /\ locals' = [locals EXCEPT !.cleaned = locals.cleaned \cup {locals.temp_dir}]
            /\ events' = Append(events, "cleanup")
       ELSE UNCHANGED <<locals, events>>
    /\ UNCHANGED <<args, fs, blVars, lossVars, encVars>>

NextPush ==
    \/ AssertArgs
    \/ WandbLookup
    \/ ParseConfig
    \/ Instantiate
    \/ LoadCheckpoint
    \/ LoadStateDict
    \/ ConvertUMT
    \/ CheckDataConfig
    \/ OutputDir
    \/ SavePretrained
    \/ Cleanup

SpecPush == InitPush /\ [][NextPush]_vars

\* The steps a save must come after, in the order of the code.
RequiredSteps ==
    <<"assert_args", "parse_config", "instantiate", "torch.load", "load_state_dict",
      "isfile(data_config)">>

IsRequiredStep(e) == \E i \in 1..Len(RequiredSteps) : RequiredSteps[i] = e

SavedAt == {i \in 1..Len(events) : events[i] = "save_pretrained"}

\* C10: save_pretrained is called at most once per run, and only after the
\* precondition held, model_config.yaml was parsed, the model instantiated, a
\* checkpoint loaded (with val_best the single epoch*.ckpt file, otherwise
\* last.ckpt), its state_dict applied and data_config.yaml found, in this order;
\* a run in which one of these steps fails saves and cleans nothing.  The call
\* gets repo_id "openclimatefix/pvnet_v2" exactly when push_to_hub, else None,
\* and the output directory local_path when given, else a temporary directory;
\* only the temporary directory is ever cleaned up, and only after the save.
C10_SaveOnlyAfterChecks ==
    /\ Cardinality(SavedAt) <= 1
    /\ \A i \in SavedAt :
          /\ SelectSeq(SubSeq(events, 1, i - 1), IsRequiredStep) = RequiredSteps
          /\ args.push_to_hub \/ args.local_path # None
          /\ fs.model_config /\ fs.data_config
          /\ args.val_best =>
                /\ Cardinality(fs.epoch_ckpts) = 1
                /\ locals.loaded.kind = "epoch" /\ fs.epoch_ckpts = {locals.loaded.epoch}
          /\ ~args.val_best => (fs.last_ckpt /\ locals.loaded = LastCkpt)
          /\ locals.model \in {"loaded", "converted"}
          /\ locals.save_args.push_to_hub = args.push_to_hub
          /\ (locals.save_args.repo_id = RepoName) <=> args.push_to_hub
          /\ ~args.push_to_hub => locals.save_args.repo_id = None
          /\ locals.save_args.dir =
                IF args.local_path # None THEN args.local_path ELSE TempDir
    /\ (pc = "raised" /\ locals.exc # "HfHubHTTPError") =>
          (SavedAt = {} /\ locals.cleaned = {})
    /\ locals.cleaned \subseteq {TempDir}
    /\ locals.cleaned # {} =>
          /\ args.local_path = None
          /\ \E i \in SavedAt : \E j \in (i + 1)..Len(events) : events[j] = "cleanup"
    /\ pc = "done" =>
          /\ SavedAt # {}
          /\ locals.cleaned = IF args.local_path = None THEN {TempDir} ELSE {}

\* A complete run with val_best and no local_path: the single epoch checkpoint
\* was loaded, the model pushed from the temporary directory, which was then
\* cleaned up.
C10_Witness ==
    /\ pc = "done"
    /\ args.val_best /\ args.local_path = None /\ args.push_to_hub
    /\ fs.epoch_ckpts = {2}
    /\ locals.loaded = EpochCkpt(2)
    /\ locals.save_args.repo_id = RepoName
    /\ locals.save_args.dir = TempDir
    /\ locals.cleaned = {TempDir}
    /\ SavedAt # {}

=============================================================================
